---- MODULE Spec2Model ----
(***************************************************************************)
(* A model of the ide-flowtype-coverage package: the coverage linter       *)
(* (lint with its busy-marker retry), the per-document coverage cache, the *)
(* status-bar CoverageView, the configuration observers, the pane-switch   *)
(* handler and deactivate.                                                 *)
(***************************************************************************)
EXTENDS Integers, Sequences, FiniteSets, TLC

VARIABLES
  executablePath,     \* this.executablePath
  onlyIfAppropriate,  \* this.onlyIfAppropriate
  showUncovered,      \* this.showUncovered
  spawnedServers,     \* module-level Set of project roots
  coverages,          \* this.coverages (WeakMap: text editor -> parsed JSON)
  coverageView,       \* this.coverageView and the fields of the element
  activeItem,         \* the workspace's active pane item
  lints,              \* the lint() calls in flight, one record per slot
  stopCmds,           \* the 'stop' commands issued by deactivate
  subscribed,         \* this.subscriptions not yet disposed
  unhandled,          \* an error escaped deactivate or one of its promises
  lastSucceeded,      \* history: per editor, the value of its last successful lint
  lintRequested,      \* the editor a dispatched 'linter:lint' command waits for
  hyperclickPriority, \* this.hyperclickPriority
  restartNotification,\* activate's local restartNotification
  openNotifications   \* restart notifications the host shows (not dismissed)

vars == <<executablePath, onlyIfAppropriate, showUncovered, spawnedServers,
          coverages, coverageView, activeItem, lints, stopCmds,
          subscribed, unhandled, lastSucceeded, lintRequested,
          hyperclickPriority, restartNotification, openNotifications>>

\* The state of the hyperclickPriority observer (lines 35-51).
hyperVars == <<hyperclickPriority, restartNotification, openNotifications>>

----------------------------------------------------------------------------
(* Bounds of the model *)

MaxLints == 2      \* lint() calls in flight at the same time
MaxCount == 12     \* covered_count and uncovered_count of a report

----------------------------------------------------------------------------
(* The environment: editors, the file system, the checker's answers *)

Docs == {"a.js", "b.js", "c.js"}
NoItem == "settings"                 \* a pane item that is no text editor
Items == Docs \cup {NoItem}
Slots == 1..MaxLints

NoFile == "undefined"
\* findCachedAsync(fileDirectory, '.flowconfig'): the config file found upward
FindConfig(d) ==
  CASE d = "a.js" -> "/p1/.flowconfig"
    [] d = "c.js" -> "/p2/.flowconfig"
    [] OTHER      -> NoFile
\* Path.dirname(configFile)
Dirname(f) ==
  CASE f = "/p1/.flowconfig" -> "/p1"
    [] f = "/p2/.flowconfig" -> "/p2"
    [] OTHER                 -> "."
\* Path.dirname(textEditor.getPath())
DocDir(d) ==
  CASE d = "a.js" -> "/p1/src"
    [] d = "c.js" -> "/p2"
    [] OTHER      -> "/tmp"
\* findCached(dir, 'node_modules/.bin/flow'), searching upward: only /p1 has
\* a local binary
FindLocalBin(dir) ==
  IF dir \in {"/p1", "/p1/src"} THEN "/p1/node_modules/.bin/flow" ELSE NoFile
ExecutablePaths == {"", "/opt/flow"}
\* Values of the hyperclickPriority setting
Priorities == {"p0", "p1"}
\* this.hyperclickPriority = null (line 35)
NullPriority == "null"

StopTimeout == 60000

\* Parsed JSON values. hasExpr = FALSE is valid JSON without an "expressions"
\* member, such as {"uncoveredLocations": []}.
Report(c, u, l) == [hasExpr |-> TRUE, covered |-> c, uncovered |-> u, locs |-> l]
NoExpressions == [hasExpr |-> FALSE, covered |-> 0, uncovered |-> 0, locs |-> <<>>]
Reports == {Report(3, 1, <<"r1">>), Report(0, 0, <<>>)}
JsonValues == Reports \cup {NoExpressions}
\* The text the checker prints: JSON text of a value, or text that is no JSON.
Outputs == [valid : {TRUE}, body : JsonValues] \cup
           [valid : {FALSE}, body : {NoExpressions}]

\* The errors exec can reject with: what the message contains, and the code.
Errors == [init : BOOLEAN, recheck : BOOLEAN, code : {"ENOENT", "OTHER"}]

----------------------------------------------------------------------------
(* CoverageView (src/lib/coverage-view.js) *)

\* tooltip: what tooltipDisposable refers to ("null", a "live" registration,
\* a "disposed" one); tooltips: the registrations of this element that
\* atom.tooltips still holds.
NoView == [exists |-> FALSE, textContent |-> <<>>, hide |-> FALSE,
           tooltip |-> "null", tooltips |-> 0]
NewView == [exists |-> TRUE, textContent |-> <<>>, hide |-> FALSE,
            tooltip |-> "null", tooltips |-> 0]

\* (covered / total) * 100 is computed in IEEE-754 doubles. Where the exact
\* value is an integer and a half, covered / total is m/200 for an odd m, and
\* the double product is that half exactly except for m = 29, 57, 113 and 115,
\* where it is the double just below it (23/40 gives 57.49999999999999).
BelowHalf(covered, total) ==
  200 * covered \in {29 * total, 57 * total, 113 * total, 115 * total}

\* Math.round, on the exact quotient, of a value that is no double below a half
RoundHalfUp(covered, total) == (200 * covered + total) \div (2 * total)

\* Math.round((covered / total) * 100), 0 when total = 0
Percent(json) ==
  LET total == json.covered + json.uncovered
  IN IF total = 0 THEN 0
     ELSE IF BelowHalf(json.covered, total) THEN (100 * json.covered) \div total
     ELSE RoundHalfUp(json.covered, total)

\* update(json) throws a TypeError reading json.expressions.covered_count
UpdateThrows(json) == ~json.hasExpr

\* An element that never disposes its tooltip.
DisposeTooltip_Never(view) == view

\* if (this.tooltipDisposable) { this.tooltipDisposable.dispose() }
\* Disposing a disposed registration does nothing.
DisposeTooltip(view) ==
  IF view.tooltip = "live"
  THEN [view EXCEPT !.tooltip = "disposed", !.tooltips = @ - 1]
  ELSE view

ViewUpdate(view, json) ==
  [DisposeTooltip(view) EXCEPT !.textContent = <<Percent(json)>>, !.hide = FALSE,
                               !.tooltip = "live", !.tooltips = @ + 1]

ViewReset(view) ==
  [DisposeTooltip(view) EXCEPT !.textContent = <<>>, !.hide = TRUE]

ViewDestroy(view) == DisposeTooltip(view)

----------------------------------------------------------------------------
(* Helpers of the lint flow *)

\* JSON.parse(result)
JsonParse(text) == [ok |-> text.valid, value |-> text.body]

\* toCoverageLinterMessages(coverage): one message per uncovered location
toCoverageLinterMessages(json) == json.locs

IsInit(e) == e.init            \* error.message.indexOf(INIT_MESSAGE) !== -1
IsRechecking(e) == e.recheck   \* error.message.indexOf(RECHECKING_MESSAGE) !== -1
IsBusy(e) == IsInit(e) \/ IsRechecking(e)

\* A locator that does not look for a project-local binary.
getExecutablePath_NoLocal(path, dir) == IF path # "" THEN path ELSE "flow"

\* this.executablePath || findCached(dir, defaultFlowBinLocation) || 'flow'
getExecutablePath(path, dir) ==
  IF path # "" THEN path
  ELSE IF FindLocalBin(dir) # NoFile THEN FindLocalBin(dir)
  ELSE "flow"

NoError == [kind |-> "none", init |-> FALSE, recheck |-> FALSE, code |-> ""]
NotFoundError == [kind |-> "NotFound", init |-> FALSE, recheck |-> FALSE, code |-> ""]
ParseError == [kind |-> "SyntaxError", init |-> FALSE, recheck |-> FALSE, code |-> ""]
TypeError == [kind |-> "TypeError", init |-> FALSE, recheck |-> FALSE, code |-> ""]
\* A catch block that wraps every error in the "executable not found" error.
Thrown_AsNotFound(e) == NotFoundError

Thrown(e) == [kind |-> "exec", init |-> e.init, recheck |-> e.recheck, code |-> e.code]

\* A lint() call. retrying: an invocation of this call failed with a busy
\* marker and no invocation has been made since. command: the host made the
\* call for a dispatched 'linter:lint' command.
IdleLint == [pc |-> "idle", doc |-> NoItem, configFile |-> NoFile,
             retrying |-> FALSE, status |-> "none", result |-> <<>>,
             err |-> NoError, command |-> FALSE, executable |-> ""]

\* Line 117: getExecutablePath(fileDirectory) is called; it reads
\* this.executablePath before its await.
Locate(l, path) ==
  [l EXCEPT !.pc = "locate", !.executable = getExecutablePath(path, DocDir(l.doc))]

\* Entering lint(textEditor): the synchronous prefix up to the first await.
LintEnter(l, d, only, path) ==
  IF only
  THEN [l EXCEPT !.pc = "findConfig", !.doc = d, !.configFile = NoFile,
                 !.executable = ""]
  ELSE Locate([l EXCEPT !.doc = d, !.configFile = NoFile], path)

Finish(l, status, result, err) ==
  [l EXCEPT !.pc = "done", !.status = status, !.result = result, !.err = err]

\* A catch block that retries on the initializing marker only.
CatchOutcome_InitOnly(e) ==
  IF IsInit(e) THEN "retry"
  ELSE IF e.code = "ENOENT" THEN "notfound"
  ELSE "rethrow"

\* A call that takes the null result for a busy answer and re-enters.
Superseded_Reenters(l) ==
  [l EXCEPT !.pc = "locate", !.retrying = TRUE]

\* Lines 127-129: exec resolved with null, the call returns null.
Superseded(l) == Finish(l, "superseded", <<>>, NoError)

\* A catch block that retries after every failure that is not ENOENT.
CatchOutcome_RetryAll(e) ==
  IF e.code = "ENOENT" THEN "notfound" ELSE "retry"

\* The catch block's decision (lines 134-140): retry, NotFound, or rethrow.
CatchOutcome(e) ==
  IF IsBusy(e) THEN "retry"
  ELSE IF e.code = "ENOENT" THEN "notfound"
  ELSE "rethrow"

\* Line 131: the root is recorded only when configFile was looked up and found.
RecordsServer(e, configFile) == IsInit(e) /\ configFile # NoFile

\* A config lookup whose result is not tested.
SkipLint_Never(configFile) == FALSE

\* Line 112: no config file found under onlyIfAppropriate ends the call with [].
SkipLint(configFile) == configFile = NoFile

\* A lint that returns the messages whatever showUncovered is.
AfterParse_AlwaysMessages(l, json, view, show) ==
  IF view.exists /\ UpdateThrows(json)
  THEN Finish(l, "failed", <<>>, TypeError)
  ELSE Finish(l, "succeeded", toCoverageLinterMessages(json), NoError)

\* Lines 143-148 for a parsed value: the call's record after the view update
\* and the computation of the returned messages.
AfterParse(l, json, view, show) ==
  IF view.exists /\ UpdateThrows(json)
  THEN Finish(l, "failed", <<>>, TypeError)
  ELSE Finish(l, "succeeded",
              IF show THEN toCoverageLinterMessages(json) ELSE <<>>, NoError)

\* Lines 145-147: the view after a parsed value was cached.
ViewAfterLint(view, json) ==
  IF view.exists /\ ~UpdateThrows(json) THEN ViewUpdate(view, json) ELSE view

\* Lines 61-68: the view after the active pane item became item.
ViewAfterSwitch(view, cov, item) ==
  IF ~view.exists THEN view
  ELSE IF item \in DOMAIN cov
       THEN IF UpdateThrows(cov[item]) THEN view ELSE ViewUpdate(view, cov[item])
       ELSE ViewReset(view)

\* A deactivate that leaves its loop after the first root.
StopCommands_First(servers, path) ==
  IF servers = {} THEN {}
  ELSE LET r == CHOOSE x \in servers : TRUE
       IN {[cwd |-> r, executable |-> getExecutablePath(path, r),
            timeout |-> StopTimeout, state |-> "running"]}

\* Lines 84-92: the stop commands deactivate issues.
StopCommands(servers, path) ==
  {[cwd |-> r, executable |-> getExecutablePath(path, r),
    timeout |-> StopTimeout, state |-> "running"] : r \in servers}

\* Line 91: .catch(() => null) on the stop command's promise.
StopRejected(c) == [c EXCEPT !.state = "ignored"]

\* An observer that raises a notification whenever the value differs.
RaisesNotification_Always(old, new, notification) == new # old

\* Lines 37-38: the observer creates a restart notification.
RaisesNotification(old, new, notification) ==
  old # NullPriority /\ new # old /\ notification = "undefined"

\* A showUncovered observer that dispatches no command.
DispatchLint_Never(item, pending) == pending

\* Lines 55-58: 'linter:lint' is dispatched on the view of the active text
\* editor, when there is one.
DispatchLint(item, pending) == IF item \in Docs THEN item ELSE pending

\* WeakMap.set(key, value)
MapSet(m, k, v) == [x \in DOMAIN m \cup {k} |-> IF x = k THEN v ELSE m[x]]

\* A finished call hands its outcome to the host before any other callback
\* runs (promise continuations run before the next event).
NoneDone == \A s \in Slots : lints[s].pc # "done"

----------------------------------------------------------------------------
(* Initial state: after activate(), no status bar consumed yet *)

Init ==
  /\ executablePath \in ExecutablePaths
  /\ onlyIfAppropriate \in BOOLEAN
  /\ showUncovered \in BOOLEAN
  /\ spawnedServers = {}
  /\ coverages = << >>
  /\ coverageView = NoView
  /\ activeItem \in Items
  /\ lints = [s \in Slots |-> IdleLint]
  /\ stopCmds = {}
  /\ subscribed = TRUE
  /\ unhandled = FALSE
  /\ lastSucceeded = << >>
  /\ lintRequested = NoItem
  /\ hyperclickPriority \in Priorities
  /\ restartNotification = "undefined"
  /\ openNotifications = 0

----------------------------------------------------------------------------
(* Configuration observers and host callbacks (activate) *)

ObserveExecutablePath(p) ==
  /\ subscribed /\ NoneDone
  /\ p # executablePath
  /\ executablePath' = p
  /\ UNCHANGED <<onlyIfAppropriate, showUncovered, spawnedServers, coverages,
                 coverageView, activeItem, lints, stopCmds, subscribed,
                 unhandled, lastSucceeded,
                 lintRequested, hyperVars>>

ObserveOnlyIfAppropriate(v) ==
  /\ subscribed /\ NoneDone
  /\ v # onlyIfAppropriate
  /\ onlyIfAppropriate' = v
  /\ UNCHANGED <<executablePath, showUncovered, spawnedServers, coverages,
                 coverageView, activeItem, lints, stopCmds, subscribed,
                 unhandled, lastSucceeded,
                 lintRequested, hyperVars>>

\* The observer of hyperclickPriority is called with p (lines 37-50).
ObserveHyperclickPriority(p) ==
  /\ subscribed /\ NoneDone
  /\ IF RaisesNotification(hyperclickPriority, p, restartNotification)
     THEN /\ restartNotification' = "open"
          /\ openNotifications' = openNotifications + 1
     ELSE UNCHANGED <<restartNotification, openNotifications>>
  /\ hyperclickPriority' = p
  /\ UNCHANGED <<executablePath, onlyIfAppropriate, showUncovered, spawnedServers,
                 coverages, coverageView, activeItem, lints, stopCmds, subscribed,
                 unhandled, lastSucceeded, lintRequested>>

\* The user dismisses the restart notification: its onDidDismiss callback
\* runs (line 47).
DismissNotification ==
  /\ openNotifications > 0
  /\ openNotifications' = openNotifications - 1
  /\ restartNotification' = "undefined"
  /\ UNCHANGED <<executablePath, onlyIfAppropriate, showUncovered, spawnedServers,
                 coverages, coverageView, activeItem, lints, stopCmds, subscribed,
                 unhandled, lastSucceeded, lintRequested, hyperclickPriority>>

\* The setting changed to v. The dispatched 'linter:lint' command makes the
\* host call lint later: a LintStart of that editor.
ObserveShowUncovered(v) ==
  /\ subscribed /\ NoneDone
  /\ v # showUncovered
  /\ showUncovered' = v
  /\ lintRequested' = DispatchLint(activeItem, lintRequested)
  /\ UNCHANGED <<executablePath, onlyIfAppropriate, spawnedServers, coverages,
                 coverageView, activeItem, lints, stopCmds, subscribed,
                 unhandled, lastSucceeded, hyperVars>>

\* The click listener of the view (coverage-view.js, lines 12-14): the
\* setting is set to its negation, on which its observer runs.
Click ==
  /\ coverageView.exists
  /\ ObserveShowUncovered(~showUncovered)

ChangeActivePaneItem(item) ==
  /\ subscribed /\ NoneDone
  /\ item # activeItem
  /\ activeItem' = item
  /\ coverageView' = ViewAfterSwitch(coverageView, coverages, item)
  /\ UNCHANGED <<executablePath, onlyIfAppropriate, showUncovered, spawnedServers,
                 coverages, lints, stopCmds, subscribed, unhandled, lastSucceeded,
                 lintRequested, hyperVars>>

consumeStatusBar ==
  /\ NoneDone
  /\ ~coverageView.exists
  /\ coverageView' = NewView
  /\ UNCHANGED <<executablePath, onlyIfAppropriate, showUncovered, spawnedServers,
                 coverages, activeItem, lints, stopCmds, subscribed, unhandled,
                 lastSucceeded,
                 lintRequested, hyperVars>>

----------------------------------------------------------------------------
(* The lint flow (provideCoverageLinter.lint) *)

FreeSlot == CHOOSE s \in Slots : lints[s].pc = "idle" /\
                                 \A t \in Slots : lints[t].pc = "idle" => s <= t

LintStart(d) ==
  /\ subscribed /\ NoneDone
  /\ \E s \in Slots : lints[s].pc = "idle"
  /\ lints' = [lints EXCEPT ![FreeSlot] =
                 LintEnter([IdleLint EXCEPT !.command = (lintRequested = d)],
                           d, onlyIfAppropriate, executablePath)]
  /\ lintRequested' = IF lintRequested = d THEN NoItem ELSE lintRequested
  /\ UNCHANGED <<executablePath, onlyIfAppropriate, showUncovered, spawnedServers,
                 coverages, coverageView, activeItem, stopCmds, subscribed,
                 unhandled, lastSucceeded, hyperVars>>

\* await findCachedAsync(fileDirectory, '.flowconfig') resolves.
FindConfigDone(s) ==
  /\ NoneDone
  /\ lints[s].pc = "findConfig"
  /\ LET l == lints[s]
         configFile == FindConfig(l.doc)
     IN lints' = [lints EXCEPT ![s] =
                    IF SkipLint(configFile)
                    THEN Finish(l, "skipped", <<>>, NoError)
                    ELSE Locate([l EXCEPT !.configFile = configFile],
                                executablePath)]
  /\ UNCHANGED <<executablePath, onlyIfAppropriate, showUncovered, spawnedServers,
                 coverages, coverageView, activeItem, stopCmds, subscribed,
                 unhandled, lastSucceeded,
                 lintRequested, hyperVars>>

\* await getExecutablePath(...) resolves and exec(...) is called with the
\* uniqueKey: a process still running under the key is killed, and the promise
\* of a killed process resolves to null, on which its lint call returns null.
ExecStart(s) ==
  /\ NoneDone
  /\ lints[s].pc = "locate"
  /\ lints' = [t \in Slots |->
                 IF t = s THEN [lints[s] EXCEPT !.pc = "exec", !.retrying = FALSE]
                 ELSE IF lints[t].pc = "exec"
                      THEN Superseded(lints[t])
                      ELSE lints[t]]
  /\ UNCHANGED <<executablePath, onlyIfAppropriate, showUncovered, spawnedServers,
                 coverages, coverageView, activeItem, stopCmds, subscribed,
                 unhandled, lastSucceeded,
                 lintRequested, hyperVars>>

\* exec resolves with the text out.
ExecSucceed(s, out) ==
  /\ NoneDone
  /\ lints[s].pc = "exec"
  /\ LET l == lints[s]
         parsed == JsonParse(out)
         fin == AfterParse(l, parsed.value, coverageView, showUncovered)
     IN IF ~parsed.ok
        THEN /\ lints' = [lints EXCEPT ![s] = Finish(l, "failed", <<>>, ParseError)]
             /\ UNCHANGED <<coverages, coverageView, lastSucceeded>>
        ELSE /\ coverages' = MapSet(coverages, l.doc, parsed.value)
             /\ coverageView' = ViewAfterLint(coverageView, parsed.value)
             /\ lints' = [lints EXCEPT ![s] = fin]
             /\ lastSucceeded' = IF fin.status = "succeeded"
                                 THEN MapSet(lastSucceeded, l.doc, parsed.value)
                                 ELSE lastSucceeded
  /\ UNCHANGED <<executablePath, onlyIfAppropriate, showUncovered, spawnedServers,
                 activeItem, stopCmds, subscribed, unhandled,
                 lintRequested, hyperVars>>

\* exec rejects with the error e.
ExecFail(s, e) ==
  /\ NoneDone
  /\ lints[s].pc = "exec"
  /\ LET l == lints[s]
     IN /\ spawnedServers' = IF RecordsServer(e, l.configFile)
                             THEN spawnedServers \cup {Dirname(l.configFile)}
                             ELSE spawnedServers
        /\ lints' = [lints EXCEPT ![s] =
             CASE CatchOutcome(e) = "retry" ->
                    LintEnter([l EXCEPT !.retrying = TRUE], l.doc,
                              onlyIfAppropriate, executablePath)
               [] CatchOutcome(e) = "notfound" ->
                    Finish(l, "failed", <<>>, NotFoundError)
               [] OTHER -> Finish(l, "failed", <<>>, Thrown(e))]
  /\ UNCHANGED <<executablePath, onlyIfAppropriate, showUncovered, coverages,
                 coverageView, activeItem, stopCmds, subscribed, unhandled,
                 lastSucceeded,
                 lintRequested, hyperVars>>

\* The host takes the outcome of a finished call.
Settle(s) ==
  /\ lints[s].pc = "done"
  /\ lints' = [lints EXCEPT ![s] = IdleLint]
  /\ UNCHANGED <<executablePath, onlyIfAppropriate, showUncovered, spawnedServers,
                 coverages, coverageView, activeItem, stopCmds, subscribed,
                 unhandled, lastSucceeded,
                 lintRequested, hyperVars>>

----------------------------------------------------------------------------
(* Calls on the CoverageView element *)

update(json) ==
  /\ coverageView.exists
  /\ ~UpdateThrows(json)
  /\ coverageView' = ViewUpdate(coverageView, json)
  /\ UNCHANGED <<executablePath, onlyIfAppropriate, showUncovered, spawnedServers,
                 coverages, activeItem, lints, stopCmds, subscribed, unhandled,
                 lastSucceeded, lintRequested, hyperVars>>

reset ==
  /\ coverageView.exists
  /\ coverageView' = ViewReset(coverageView)
  /\ UNCHANGED <<executablePath, onlyIfAppropriate, showUncovered, spawnedServers,
                 coverages, activeItem, lints, stopCmds, subscribed, unhandled,
                 lastSucceeded, lintRequested, hyperVars>>

destroy ==
  /\ coverageView.exists
  /\ coverageView' = ViewDestroy(coverageView)
  /\ UNCHANGED <<executablePath, onlyIfAppropriate, showUncovered, spawnedServers,
                 coverages, activeItem, lints, stopCmds, subscribed, unhandled,
                 lastSucceeded, lintRequested, hyperVars>>

----------------------------------------------------------------------------
(* deactivate *)

deactivate ==
  /\ subscribed /\ NoneDone
  /\ subscribed' = FALSE
  /\ stopCmds' = stopCmds \cup StopCommands(spawnedServers, executablePath)
  /\ UNCHANGED <<executablePath, onlyIfAppropriate, showUncovered, spawnedServers,
                 coverages, coverageView, activeItem, lints, unhandled,
                 lastSucceeded,
                 lintRequested, hyperVars>>

\* A stop command ends: it exits, or its promise rejects (timeout, ENOENT, ...).
StopDone(c, ok) ==
  /\ NoneDone
  /\ c \in stopCmds
  /\ c.state = "running"
  /\ LET d == IF ok THEN [c EXCEPT !.state = "exited"] ELSE StopRejected(c)
     IN /\ stopCmds' = (stopCmds \ {c}) \cup {d}
        /\ unhandled' = (unhandled \/ d.state = "rejected")
  /\ UNCHANGED <<executablePath, onlyIfAppropriate, showUncovered, spawnedServers,
                 coverages, coverageView, activeItem, lints, subscribed,
                 lastSucceeded,
                 lintRequested, hyperVars>>

----------------------------------------------------------------------------
(* Specifications. Each one lets the environment drive a part of the       *)
(* package, so that the state space stays finite and small.                *)

NoLintInFlight == \A s \in Slots : lints[s].pc = "idle"

\* The lint flow with overlapping calls, the cache and the view.
Next ==
  \/ consumeStatusBar
  \/ \E d \in {"a.js", "b.js"} : LintStart(d)
  \/ \E s \in Slots : FindConfigDone(s)
  \/ \E s \in Slots : ExecStart(s)
  \/ \E s \in Slots, out \in Outputs : ExecSucceed(s, out)
  \/ \E s \in Slots, e \in Errors : ExecFail(s, e)
  \/ \E s \in Slots : Settle(s)

InitLint == Init /\ executablePath = "" /\ activeItem = "a.js" /\
            hyperclickPriority = "p0"
Spec == InitLint /\ [][Next]_vars

\* Pane switches and the view, with one lint call at a time, the checker
\* answering with a text of outs.
ViewStep(outs) ==
  \/ \E item \in {"a.js", "b.js", NoItem} : ChangeActivePaneItem(item)
  \/ \E v \in BOOLEAN : ObserveShowUncovered(v)
  \/ Click
  \/ consumeStatusBar
  \/ \E d \in {"a.js", "b.js"} : NoLintInFlight /\ LintStart(d)
  \/ \E s \in Slots : FindConfigDone(s)
  \/ \E s \in Slots : ExecStart(s)
  \/ \E s \in Slots, out \in outs : ExecSucceed(s, out)
  \/ \E s \in Slots, e \in Errors : ExecFail(s, e)
  \/ \E s \in Slots : Settle(s)

InitView == Init /\ executablePath = "" /\ hyperclickPriority = "p0"

\* The checker prints well-formed reports only.
NextView == ViewStep([valid : {TRUE}, body : Reports])
SpecView == InitView /\ [][NextView]_vars

\* The checker prints any text.
NextViewAny == ViewStep(Outputs)
SpecViewAny == InitView /\ [][NextViewAny]_vars

\* The retry policy: overlapping calls while onlyIfAppropriate changes; no view.
NextRetry ==
  \/ \E v \in BOOLEAN : ObserveOnlyIfAppropriate(v)
  \/ \E d \in {"a.js", "b.js"} : LintStart(d)
  \/ \E s \in Slots : FindConfigDone(s)
  \/ \E s \in Slots : ExecStart(s)
  \/ \E s \in Slots, out \in [valid : {TRUE}, body : {Report(3, 1, <<"r1">>)}] :
        ExecSucceed(s, out)
  \/ \E s \in Slots, e \in Errors : ExecFail(s, e)
  \/ \E s \in Slots : Settle(s)

InitRetry == Init /\ executablePath = "" /\ activeItem = NoItem /\
             hyperclickPriority = "p0"
SpecRetry == InitRetry /\ [][NextRetry]_vars

\* Deactivation: lint calls, one at a time, fill the registry of spawned
\* servers; deactivate stops them.
NextStop ==
  \/ \E p \in ExecutablePaths : ObserveExecutablePath(p)
  \/ \E v \in BOOLEAN : ObserveOnlyIfAppropriate(v)
  \/ \E d \in Docs : NoLintInFlight /\ LintStart(d)
  \/ \E s \in Slots : FindConfigDone(s)
  \/ \E s \in Slots : ExecStart(s)
  \/ \E s \in Slots, out \in [valid : {TRUE}, body : {Report(0, 0, <<>>)}] :
        ExecSucceed(s, out)
  \/ \E s \in Slots, e \in Errors : ExecFail(s, e)
  \/ \E s \in Slots : Settle(s)
  \/ deactivate
  \/ \E c \in stopCmds, ok \in BOOLEAN : StopDone(c, ok)

InitStop == Init /\ showUncovered = TRUE /\ activeItem = NoItem /\
            hyperclickPriority = "p0"
SpecStop == InitStop /\ [][NextStop]_vars

\* Termination of lint: overlapping calls of one document without a config
\* file while onlyIfAppropriate changes; the checker answers busy
\* (initializing), fails otherwise, or prints a report.
LiveErrors == [init : BOOLEAN, recheck : {FALSE}, code : {"OTHER"}]
LiveOutputs == [valid : {TRUE}, body : {Report(3, 1, <<"r1">>)}]

\* The checker answers the invocation of call s with something else than a
\* busy marker.
NonBusyAnswer(s) ==
  \/ \E out \in LiveOutputs : ExecSucceed(s, out)
  \/ \E e \in LiveErrors : ~IsBusy(e) /\ ExecFail(s, e)

NextLive ==
  \/ \E v \in BOOLEAN : ObserveOnlyIfAppropriate(v)
  \/ LintStart("b.js")
  \/ \E s \in Slots : FindConfigDone(s)
  \/ \E s \in Slots : ExecStart(s)
  \/ \E s \in Slots, out \in LiveOutputs : ExecSucceed(s, out)
  \/ \E s \in Slots, e \in LiveErrors : ExecFail(s, e)
  \/ \E s \in Slots : Settle(s)

\* Every pending promise continuation of a call runs, the host takes every
\* outcome, and a checker that is invoked again and again eventually answers
\* without a busy marker.
FairLive ==
  \A s \in Slots :
    /\ SF_vars(FindConfigDone(s))
    /\ SF_vars(ExecStart(s))
    /\ SF_vars(NonBusyAnswer(s))
    /\ WF_vars(Settle(s))

InitLive == Init /\ executablePath = "" /\ showUncovered = TRUE /\
            activeItem = NoItem /\ onlyIfAppropriate = FALSE /\
            hyperclickPriority = "p0"
SpecLive == InitLive /\ [][NextLive]_vars /\ FairLive

\* The element alone: any sequence of update, reset and destroy calls, with
\* reports of every pair of counts up to MaxCount and a report of 40
\* expressions whose quotient 23/40 is one of those of BelowHalf.
CountReports == {Report(c, u, <<>>) : c \in 0..MaxCount, u \in 0..MaxCount}
                  \cup {Report(23, 17, <<>>)}

NextPresenter ==
  \/ consumeStatusBar
  \/ \E json \in CountReports : update(json)
  \/ reset
  \/ destroy

InitPresenter == Init /\ executablePath = "" /\ onlyIfAppropriate = FALSE /\
                 showUncovered = TRUE /\ activeItem = NoItem /\
                 hyperclickPriority = "p0"
SpecPresenter == InitPresenter /\ [][NextPresenter]_vars

\* The settings: activate has reached line 36, before the first call of
\* the hyperclickPriority observer; the settings change, the restart
\* notification is dismissed, the package is deactivated.
NextConfig ==
  \/ \E p \in Priorities : ObserveHyperclickPriority(p)
  \/ DismissNotification
  \/ \E p \in ExecutablePaths : ObserveExecutablePath(p)
  \/ \E v \in BOOLEAN : ObserveOnlyIfAppropriate(v)
  \/ \E v \in BOOLEAN : ObserveShowUncovered(v)
  \/ \E item \in Items : ChangeActivePaneItem(item)
  \/ deactivate

InitConfig ==
  /\ executablePath \in ExecutablePaths
  /\ onlyIfAppropriate \in BOOLEAN
  /\ showUncovered \in BOOLEAN
  /\ spawnedServers = {}
  /\ coverages = << >>
  /\ coverageView = NoView
  /\ activeItem \in Items
  /\ lints = [s \in Slots |-> IdleLint]
  /\ stopCmds = {}
  /\ subscribed = TRUE
  /\ unhandled = FALSE
  /\ lastSucceeded = << >>
  /\ lintRequested = NoItem
  /\ hyperclickPriority = NullPriority
  /\ restartNotification = "undefined"
  /\ openNotifications = 0
SpecConfig == InitConfig /\ [][NextConfig]_vars

----------------------------------------------------------------------------
(* Claims *)

\* C1: the cache entry of every document is the value of the most recently
\* completed successful lint of that document, and a document without a
\* successful lint has no entry: a failed, retried or superseded call never
\* creates or overwrites an entry.
C1_CacheIsLastSucceeded == coverages = lastSucceeded

\* C8: a checker output that is no JSON, or JSON without the "expressions"
\* member, makes the lint call fail and leaves the cache and the view as they
\* were before the call.
C8_MalformedOutputRejected ==
  [][\A s \in Slots, out \in Outputs :
       ((~out.valid \/ ~out.body.hasExpr) /\ ExecSucceed(s, out))
         => /\ lints'[s].status = "failed"
            /\ UNCHANGED <<coverages, coverageView>>]_vars

\* C9: the exec call of a lint for one document leaves a lint of another
\* document that is waiting on the checker as it was.
C9_OtherDocumentUntouched ==
  [][\A s, t \in Slots :
       (/\ lints[t].pc = "exec"
        /\ lints[t].doc # lints[s].doc
        /\ ExecStart(s))
         => lints'[t] = lints[t]]_vars

\* C2: once the view exists it shows the active item's cached report, with
\* the percentage of that report, and shows nothing when the active item has
\* no cached report.
C2_ViewReflectsActive ==
  coverageView.exists =>
    IF activeItem \in DOMAIN coverages
    THEN /\ coverageView.textContent = <<Percent(coverages[activeItem])>>
         /\ ~coverageView.hide
    ELSE coverageView.textContent = <<>>

\* C3: a pane switch with the view present leaves the cache alone and makes
\* the view show the percentage of the new item's cached report, or resets
\* the view (empty and hidden) when the item has none.
C3_SwitchShowsCachedReport ==
  [][\A item \in Items :
       (coverageView.exists /\ ChangeActivePaneItem(item))
         => /\ coverages' = coverages
            /\ IF item \in DOMAIN coverages
               THEN /\ coverageView'.textContent = <<Percent(coverages[item])>>
                    /\ ~coverageView'.hide
               ELSE /\ coverageView'.textContent = <<>>
                    /\ coverageView'.hide]_vars

\* C4 as stated: a call that caught a busy failure always makes a further
\* invocation, so it never ends while it still owes one, and no busy error
\* reaches the caller.
C4_RetryAlwaysInvokes ==
  \A s \in Slots :
    lints[s].pc = "done" =>
      /\ ~lints[s].retrying
      /\ ~IsBusy(lints[s].err)

\* C4 as amended: a busy failure re-enters lint for the same document; the
\* re-entered call makes one further invocation, unless it went through the
\* config lookup and found no config file, and then it ends with the empty
\* result; no busy error reaches the caller.
C4_RetryInvokesOrSkips ==
  /\ [](\A s \in Slots :
          lints[s].pc = "done" =>
            /\ ~IsBusy(lints[s].err)
            /\ lints[s].retrying =>
                 /\ lints[s].status = "skipped"
                 /\ lints[s].result = <<>>
                 /\ FindConfig(lints[s].doc) = NoFile)
  /\ [][\A s \in Slots :
          /\ \A e \in Errors :
               (IsBusy(e) /\ lints[s].pc = "exec" /\ ExecFail(s, e)) =>
                 /\ lints'[s].pc \in {"findConfig", "locate"}
                 /\ lints'[s].retrying
                 /\ lints'[s].doc = lints[s].doc
          /\ (lints[s].retrying /\ lints'[s] # lints[s]) =>
               \/ lints[s].pc = "findConfig" /\ lints'[s].pc \in {"locate", "done"}
               \/ /\ lints[s].pc = "locate"
                  /\ lints'[s].pc = "exec"
                  /\ ~lints'[s].retrying
               \/ lints[s].pc = "done" /\ lints'[s].pc = "idle"]_vars

\* C4 witness: one call re-entered after a busy failure is about to invoke
\* the checker again while another one, re-entered too, ended with the empty
\* result.
C4_Witness ==
  \E s, t \in Slots :
    /\ lints[s].pc = "locate" /\ lints[s].retrying
    /\ lints[t].pc = "done" /\ lints[t].retrying /\ lints[t].status = "skipped"

\* C5: an invocation failure with code ENOENT ends the call as failed with the
\* 'executable not found' error, without another attempt.
C5_NotFoundNeverRetried ==
  [][\A s \in Slots, e \in Errors :
       (e.code = "ENOENT" /\ lints[s].pc = "exec" /\ ExecFail(s, e))
         => /\ lints'[s].pc = "done"
            /\ lints'[s].status = "failed"
            /\ lints'[s].err = NotFoundError]_vars

\* C6: an invocation failure with the initializing marker records the project
\* root of the linted document (the directory of its config file) in
\* spawnedServers, whatever onlyIfAppropriate is.
C6_InitRecordsRoot ==
  [][\A s \in Slots, e \in Errors :
       (IsInit(e) /\ FindConfig(lints[s].doc) # NoFile /\ ExecFail(s, e))
         => Dirname(FindConfig(lints[s].doc)) \in spawnedServers']_vars

\* C10: a call entered with onlyIfAppropriate true awaits the config lookup
\* instead of the checker, and when the lookup finds no config file the call
\* returns the empty list, not an error, no invocation is started, and the
\* cache, the view and spawnedServers are left unchanged.
C10_InappropriateLintSkipped ==
  [][/\ \A d \in Docs :
          (onlyIfAppropriate /\ LintStart(d)) => lints'[FreeSlot].pc = "findConfig"
     /\ \A s \in Slots :
          (FindConfig(lints[s].doc) = NoFile /\ FindConfigDone(s))
            => /\ lints'[s].pc = "done"
               /\ lints'[s].status = "skipped"
               /\ lints'[s].result = <<>>
               /\ lints'[s].err = NoError
               /\ \A t \in Slots : lints'[t].pc = "exec" => lints[t].pc = "exec"
               /\ UNCHANGED <<coverages, coverageView, spawnedServers>>]_vars

\* C10 witness: a call has ended with the empty result while the cache holds
\* an entry and the view shows a report.
C10_Witness ==
  /\ \E s \in Slots : lints[s].pc = "done" /\ lints[s].status = "skipped"
  /\ DOMAIN coverages # {}
  /\ coverageView.exists /\ coverageView.tooltip = "live"

\* C7: deactivate issues, for every root in spawnedServers at that moment and
\* for nothing else, one stop command in that root's directory with the
\* timeout, and completes while these commands still run; a stop command
\* that fails is ignored, and no error ever escapes.
C7_DeactivateStopsAll ==
  /\ [](~unhandled)
  /\ [](\A c \in stopCmds : c.state \in {"running", "exited", "ignored"})
  /\ [][(subscribed /\ ~subscribed') =>
          /\ \A r \in spawnedServers :
               Cardinality({c \in stopCmds' : c.cwd = r}) = 1
          /\ \A c \in stopCmds' :
               /\ c.cwd \in spawnedServers
               /\ c.timeout = StopTimeout
               /\ c.state = "running"
          /\ UNCHANGED <<spawnedServers, lints, unhandled>>]_vars

\* C7 witness: after deactivate with two roots recorded, one stop command
\* has failed and the other one still runs.
C7_Witness ==
  /\ ~subscribed
  /\ Cardinality(stopCmds) = 2
  /\ \E c \in stopCmds : c.state = "ignored"
  /\ \E c \in stopCmds : c.state = "running"

\* C11: a lint that succeeds while showUncovered is false returns the empty
\* list whatever the uncovered locations of the report are; its report is the
\* document's cache entry, and the view, when there is one, shows the
\* percentage of that report.
C11_HiddenUncoveredStillCached ==
  [][\A s \in Slots, out \in Outputs :
       (/\ ~showUncovered
        /\ lints[s].pc = "exec"
        /\ ExecSucceed(s, out)
        /\ lints'[s].status = "succeeded")
         => /\ lints'[s].result = <<>>
            /\ lints[s].doc \in DOMAIN coverages'
            /\ coverages'[lints[s].doc] = JsonParse(out).value
            /\ coverageView.exists =>
                 /\ coverageView'.textContent = <<Percent(JsonParse(out).value)>>
                 /\ ~coverageView'.hide]_vars

\* C11 witness: with showUncovered false a lint has succeeded with a report
\* that has an uncovered location; the report is cached and shown.
C11_Witness ==
  /\ ~showUncovered
  /\ coverageView.exists /\ coverageView.textContent = <<75>>
  /\ \E s \in Slots :
       /\ lints[s].pc = "done" /\ lints[s].status = "succeeded"
       /\ lints[s].result = <<>>
       /\ lints[s].doc \in DOMAIN coverages
       /\ coverages[lints[s].doc].locs # <<>>

\* C12 as stated: a lint call that has invoked the checker completes only as
\* Succeeded or Failed (so it never completes while the checker stays busy).
C12_EndsSucceededOrFailed ==
  [][\A s \in Slots :
       ((lints[s].pc = "exec" \/ lints[s].retrying) /\ lints'[s].pc = "done")
         => lints'[s].status \in {"succeeded", "failed"}]_vars

\* C12: when the checker eventually stops answering with a busy marker every
\* lint call eventually ends; a busy answer never ends the call but re-enters
\* it, without a bound; and a call that has invoked the checker ends as
\* succeeded or failed on an answer without busy marker, as superseded when
\* another call invokes the checker, or as skipped when the re-entered call
\* finds onlyIfAppropriate true and no config file.
C12_LintTerminates ==
  /\ \A s \in Slots : (lints[s].pc # "idle") ~> (lints[s].pc = "done")
  /\ [][\A s \in Slots, e \in LiveErrors :
          (IsBusy(e) /\ lints[s].pc = "exec" /\ ExecFail(s, e))
            => lints'[s].pc \in {"findConfig", "locate"} /\ lints'[s].retrying]_vars
  /\ [][\A s \in Slots :
          ((lints[s].pc = "exec" \/ lints[s].retrying) /\ lints'[s].pc = "done")
            => \/ /\ lints'[s].status \in {"succeeded", "failed"}
                  /\ lints[s].pc = "exec" /\ NonBusyAnswer(s)
               \/ /\ lints'[s].status = "superseded"
                  /\ \E t \in Slots \ {s} : ExecStart(t)
               \/ /\ lints'[s].status = "skipped"
                  /\ lints[s].pc = "findConfig" /\ FindConfigDone(s)]_vars

\* C12 witness: a call whose invocation was answered busy has ended without
\* a further invocation, skipped on re-entry.
C12_Witness ==
  \E s \in Slots : lints[s].pc = "done" /\ lints[s].retrying
                   /\ lints[s].status = "skipped"

\* C13: an invocation failure that carries neither busy marker and is not
\* ENOENT makes the lint call fail with that same error; the call is not
\* re-entered, and the cache, the view and the registry stay as they were.
C13_OtherFailurePropagates ==
  [][\A s \in Slots, e \in Errors :
       (/\ ~IsBusy(e) /\ e.code # "ENOENT"
        /\ lints[s].pc = "exec"
        /\ ExecFail(s, e))
         => /\ lints'[s].pc = "done" /\ lints'[s].status = "failed"
            /\ lints'[s].err = [kind |-> "exec", init |-> e.init,
                                recheck |-> e.recheck, code |-> e.code]
            /\ ~lints'[s].retrying
            /\ UNCHANGED <<coverages, coverageView, spawnedServers>>]_vars

\* C13 witness: a call has failed with the checker's own error while the
\* cache holds a report and the view shows one.
C13_Witness ==
  /\ coverageView.exists /\ coverageView.textContent # <<>>
  /\ coverages # << >>
  /\ \E s \in Slots :
       /\ lints[s].pc = "done" /\ lints[s].status = "failed"
       /\ lints[s].err.kind = "exec" /\ lints[s].err.code = "OTHER"

\* C14: a click on the view sets showUncovered to its negation; every change
\* of the flag dispatches a lint command on the active text editor, when
\* there is one; the host's lint of that editor serves the command, and when
\* that lint succeeds it returns the uncovered locations of the report if the
\* flag is true and the empty list if it is false.
C14_FlagChangeRelints ==
  /\ [][Click => showUncovered' = ~showUncovered]_vars
  /\ [][(showUncovered' # showUncovered /\ activeItem \in Docs)
          => lintRequested' = activeItem]_vars
  /\ [][\A d \in Docs :
          (lintRequested = d /\ LintStart(d))
            => /\ lintRequested' = NoItem
               /\ \E s \in Slots : /\ lints[s].pc = "idle" /\ lints'[s].pc # "idle"
                                   /\ lints'[s].doc = d /\ lints'[s].command]_vars
  /\ [][\A s \in Slots, out \in Outputs :
          (/\ lints[s].command /\ lints[s].pc = "exec"
           /\ ExecSucceed(s, out)
           /\ lints'[s].status = "succeeded")
            => lints'[s].result =
                 IF showUncovered THEN toCoverageLinterMessages(JsonParse(out).value)
                 ELSE <<>>]_vars

\* C14 witness: the lint made for the dispatched command has succeeded on
\* the active editor and returned the uncovered locations, the flag being
\* true.
C14_Witness ==
  /\ showUncovered /\ coverageView.exists /\ lintRequested = NoItem
  /\ \E s \in Slots :
       /\ lints[s].pc = "done" /\ lints[s].command
       /\ lints[s].status = "succeeded"
       /\ lints[s].doc = activeItem
       /\ lints[s].result # <<>>

\* C15: the percentage update shows is 0 when covered + uncovered = 0 and
\* otherwise covered / (covered + uncovered) * 100 rounded to the nearest
\* integer, a half rounding up as Math.round does; it is an integer of 0..100.
C15_PercentIsRounded ==
  [][\A json \in CountReports :
       update(json)
         => /\ coverageView'.textContent =
                 <<IF json.covered + json.uncovered = 0 THEN 0
                   ELSE RoundHalfUp(json.covered, json.covered + json.uncovered)>>
            /\ coverageView'.textContent[1] \in 0..100]_vars

\* C20: through every sequence of update, reset and destroy calls the
\* element has at most one live tooltip registration; update leaves exactly
\* one and the element visible, reset leaves none, the text empty and the
\* element hidden, destroy leaves none.
C20_AtMostOneTooltip ==
  /\ [][/\ coverageView'.tooltips \in {0, 1}
        /\ coverageView'.tooltips = 1 <=> coverageView'.tooltip = "live"]_vars
  /\ [][\A json \in CountReports :
          update(json) => coverageView'.tooltips = 1 /\ ~coverageView'.hide]_vars
  /\ [][reset => /\ coverageView'.tooltips = 0
                 /\ coverageView'.textContent = <<>>
                 /\ coverageView'.hide]_vars
  /\ [][destroy => coverageView'.tooltips = 0]_vars

\* C20 witness: the element was updated, reset and updated again, and was
\* then destroyed: it still shows a percentage and has a disposed tooltip.
C20_Witness ==
  /\ coverageView.exists
  /\ coverageView.tooltip = "disposed" /\ coverageView.tooltips = 0
  /\ coverageView.textContent = <<75>> /\ ~coverageView.hide

\* C16: the executable a lint call or a stop command runs is the configured
\* path when that is non-empty, otherwise the project-local binary found
\* upward from the directory when there is one, otherwise 'flow'; it is never
\* empty.
C16_ExecutableResolution ==
  /\ [][\A s \in Slots :
          (lints[s].pc # "locate" /\ lints'[s].pc = "locate")
            => LET x == lints'[s].executable
                   local == FindLocalBin(DocDir(lints'[s].doc))
               IN /\ x # ""
                  /\ executablePath # "" => x = executablePath
                  /\ (executablePath = "" /\ local # NoFile) => x = local
                  /\ (executablePath = "" /\ local = NoFile) => x = "flow"]_vars
  /\ [][deactivate
          => \A c \in stopCmds' :
               LET local == FindLocalBin(c.cwd)
               IN /\ c.executable # ""
                  /\ executablePath # "" => c.executable = executablePath
                  /\ (executablePath = "" /\ local # NoFile) => c.executable = local
                  /\ (executablePath = "" /\ local = NoFile) => c.executable = "flow"]_vars

\* C16 witness: with no configured path, a lint call of a document under /p1
\* runs the project-local binary while the server of /p2, which has none, is
\* stopped with 'flow'.
C16_Witness ==
  /\ executablePath = ""
  /\ \E s \in Slots : /\ lints[s].pc = "exec" /\ lints[s].doc = "a.js"
                      /\ lints[s].executable = "/p1/node_modules/.bin/flow"
  /\ \E c \in stopCmds : c.cwd = "/p2" /\ c.executable = "flow"

\* C17: a lint call whose invocation is superseded (exec resolves with null)
\* ends without an error and without a result; it is not re-entered, and the
\* cache, the view and the registry of spawned servers stay as they were.
C17_SupersededCallEndsQuietly ==
  [][\A s \in Slots, t \in Slots :
       (s # t /\ lints[s].pc = "exec" /\ ExecStart(t))
         => /\ lints'[s].pc = "done" /\ lints'[s].status = "superseded"
            /\ lints'[s].err = NoError /\ lints'[s].result = <<>>
            /\ ~lints'[s].retrying
            /\ UNCHANGED <<coverages, coverageView, spawnedServers, lastSucceeded>>]_vars

\* C17 witness: a call was superseded while the cache holds a report and the
\* view shows it; the superseding call is waiting for the checker.
C17_Witness ==
  /\ coverages # << >> /\ coverageView.exists /\ coverageView.textContent # <<>>
  /\ \E s \in Slots, t \in Slots :
       /\ lints[s].pc = "done" /\ lints[s].status = "superseded"
       /\ lints[t].pc = "exec"

\* C18: the first call of the hyperclickPriority observer raises no restart
\* notification; every later call with a value different from the stored one
\* leaves exactly one notification open, a new one being created when none
\* was open (so also after a dismissal); never more than one is open.
C18_OneRestartNotification ==
  /\ [][\A p \in Priorities :
          (hyperclickPriority = NullPriority /\ ObserveHyperclickPriority(p))
            => openNotifications' = 0 /\ restartNotification' = "undefined"]_vars
  /\ [][\A p \in Priorities :
          (/\ hyperclickPriority # NullPriority /\ p # hyperclickPriority
           /\ ObserveHyperclickPriority(p))
            => /\ openNotifications' = 1 /\ restartNotification' = "open"
               /\ openNotifications = 0 => openNotifications' = openNotifications + 1]_vars
  /\ [][openNotifications' <= 1]_vars
  /\ [][DismissNotification
          => openNotifications' = 0 /\ restartNotification' = "undefined"]_vars

\* C18 witness: the setting was observed, then changed, and the restart
\* notification is open.
C18_Witness ==
  /\ hyperclickPriority \in Priorities
  /\ restartNotification = "open" /\ openNotifications = 1

\* C19: after deactivation every project root in the registry of spawned
\* servers has had a stop command issued for it, whatever the lint calls
\* still in flight do.
C19_RegistryStoppedAfterDeactivate ==
  ~subscribed => \A r \in spawnedServers : \E c \in stopCmds : c.cwd = r

====
